---- MODULE Spec2Model ----
(***************************************************************************)
(* Model of the pH Scale "Macro" model: MacroSolution (solute volume,      *)
(* water volume and the derived totalVolume / pH / color properties, with  *)
(* the atomic two-field update used when draining) and MacroModel (the     *)
(* per-tick step, the faucets, the dropper and the autofill animation),    *)
(* and of the RatioNode of the Micro screen (the numbers of H3O+ and OH-   *)
(* molecules it draws for the pH it observes).                             *)
(*                                                                         *)
(* Numbers are exact rationals <<n, d>> (d > 0, lowest terms), in liters,  *)
(* liters per second and seconds.  Property.set notifies its listeners     *)
(* synchronously, in registration order, and only when the value changes;  *)
(* every operator below takes the whole program state s and returns the    *)
(* state after the call and all the listeners it triggers have returned.   *)
(***************************************************************************)
EXTENDS Integers, Sequences, FiniteSets, TLC

VARIABLES
  solute,               \* dropper.soluteProperty (shared with the solution)
  soluteVolume,         \* solution.soluteVolumeProperty
  waterVolume,          \* solution.waterVolumeProperty
  totalVolume,          \* solution.totalVolumeProperty (published value)
  pH,                   \* solution.pHProperty (published value)
  color,                \* solution.colorProperty (published value)
  ignoreVolumeUpdate,   \* solution.ignoreVolumeUpdate
  initialSoluteVolume,  \* options.soluteVolume, the value soluteVolumeProperty.reset() restores
  initialWaterVolume,   \* options.waterVolume, the value waterVolumeProperty.reset() restores
  dropperFlowRate,      \* dropper.flowRateProperty
  isDispensing,         \* dropper.isDispensingProperty
  dropperEnabled,       \* dropper.enabledProperty
  waterFaucetFlowRate,  \* waterFaucet.flowRateProperty
  waterFaucetEnabled,   \* waterFaucet.enabledProperty
  drainFaucetFlowRate,  \* drainFaucet.flowRateProperty
  drainFaucetEnabled,   \* drainFaucet.enabledProperty
  isAutofilling,        \* model.isAutofillingProperty
  autofillEnabled,      \* model.autofillEnabledProperty
  autofillVolume,       \* model.autofillVolume (options.autofillVolume)
  isSettingPhetioState, \* phet.joist.sim.isSettingPhetioStateProperty
  totalLog,             \* values a totalVolumeProperty subscriber was notified of during the last operation
  pHLog,                \* values a pHProperty subscriber was notified of during the last operation
  colorLog,             \* values a colorProperty subscriber was notified of during the last operation
  callLog,              \* calls made on the solution during the last operation, in order
  pHNumber,             \* pHProperty of the solution the RatioNode observes (the Micro screen's): a number, or NullNumber
  ratioNode,            \* the RatioNode and its MoleculesCanvas: visible, pH, the two counts
  ratioPre,             \* pHNumber and ratioNode before the last operation on them
  lastOp,               \* the last operation and its argument
  pre,                  \* the program state the last operation started from
  steps,                \* number of operations so far
  scenario              \* progress through the scenario addWater(0.5); replace solute; addSolute(0.3)

vars == << solute, soluteVolume, waterVolume, totalVolume, pH, color, ignoreVolumeUpdate,
           initialSoluteVolume, initialWaterVolume,
           dropperFlowRate, isDispensing, dropperEnabled,
           waterFaucetFlowRate, waterFaucetEnabled, drainFaucetFlowRate, drainFaucetEnabled,
           isAutofilling, autofillEnabled, autofillVolume, isSettingPhetioState,
           totalLog, pHLog, colorLog, callLog, lastOp, pre, steps, scenario,
           pHNumber, ratioNode, ratioPre >>

-----------------------------------------------------------------------------
(* Exact rational arithmetic *)

RECURSIVE GCD(_, _)
GCD(a, b) == IF b = 0 THEN a ELSE GCD(b, a % b)

Abs(n) == IF n < 0 THEN -n ELSE n

Rat(n, d) == LET g == GCD(Abs(n), d) IN << n \div g, d \div g >>

Zero == << 0, 1 >>

One == << 1, 1 >>

\* sums and comparisons over the least common denominator, products with the
\* common factors cancelled first, which keeps the intermediate integers small
Add(a, b) ==
  LET g == GCD(a[2], b[2]) IN Rat(a[1] * (b[2] \div g) + b[1] * (a[2] \div g), a[2] * (b[2] \div g))

Sub(a, b) ==
  LET g == GCD(a[2], b[2]) IN Rat(a[1] * (b[2] \div g) - b[1] * (a[2] \div g), a[2] * (b[2] \div g))

Mul(a, b) ==
  LET g1 == GCD(Abs(a[1]), b[2])
      g2 == GCD(Abs(b[1]), a[2])
  IN Rat((a[1] \div g1) * (b[1] \div g2), (a[2] \div g2) * (b[2] \div g1))

\* a / b for b > 0
Div(a, b) == Mul(a, << b[2], b[1] >>)

Lt(a, b) ==
  LET g == GCD(a[2], b[2]) IN a[1] * (b[2] \div g) < b[1] * (a[2] \div g)

Le(a, b) ==
  LET g == GCD(a[2], b[2]) IN a[1] * (b[2] \div g) <= b[1] * (a[2] \div g)

Min(a, b) == IF Lt(b, a) THEN b ELSE a

Max(a, b) == IF Lt(a, b) THEN b ELSE a

-----------------------------------------------------------------------------
(* Bounds of the exploration *)

MaxSteps == 4

\* arguments of addSolute
SoluteDeltas == { <<1, 200>>, <<3, 10>> }

\* arguments of addWater
WaterDeltas == { <<1, 2>>, <<6, 5>> }

\* arguments of drainSolution
DrainDeltas == { <<101, 200>>, <<6, 5>> }

\* values of the pH the ratio view observes, in thousandths: the ends and the
\* middle of the scale, the ends of the logarithmic range, and values that
\* differ from them by less than the meter displays
PHThousandths == { 0, 4, 1000, 3996, 5994, 5996, 6000, 6500, 6996, 7000, 7004,
                   7500, 8000, 8004, 8006, 10000, 13000, 13996, 14000 }

\* arguments at and beyond the edges of what the operations expect: negative,
\* zero, less than MIN_VOLUME, and more than the beaker holds
EdgeDeltas == { <<-1, 2>>, Zero, <<1, 200>>, <<2, 1>> }

\* tick durations, in seconds
Dts == { <<1, 5>>, <<1, 2>> }

\* tick durations of the autofill animation, one of them so short that the
\* fast flow rate times dt is below MIN_VOLUME
AutofillDts == { <<1, 100>>, <<1, 5>>, <<1, 2>> }

\* construction-time << soluteVolume, waterVolume >> of the solution
InitialVolumes == { << Zero, Zero >>, << <<1, 10>>, <<1, 5>> >> }

-----------------------------------------------------------------------------
(* Program constants *)

VOLUME_DECIMAL_PLACES == 2

MIN_VOLUME == Rat(1, 10 ^ VOLUME_DECIMAL_PLACES)

BeakerVolume == << 6, 5 >>

AutofillVolume == << 1, 2 >>

\* the values of options.autofillVolume: none, and the default
AutofillVolumes == { Zero, AutofillVolume }

AutofillFlowRate == << 3, 4 >>

DropperMaxFlowRate == << 1, 20 >>

FaucetMaxFlowRate == << 1, 4 >>

WATER == [ name |-> "WATER", pH |-> 7 ]

VOMIT == [ name |-> "VOMIT", pH |-> 2 ]

DRAIN_CLEANER == [ name |-> "DRAIN_CLEANER", pH |-> 13 ]

Solutes == { WATER, VOMIT, DRAIN_CLEANER }

-----------------------------------------------------------------------------
(* PHModel.computePH.  The pH of a mixture is -log10 (or 14 + log10) of the *)
(* stock concentration diluted by soluteVolume / (soluteVolume +           *)
(* waterVolume); for a given stock pH other than 7 it is strictly          *)
(* monotonic in that fraction, so a pH value is represented by the pair    *)
(* (stock pH, fraction), with every mixture of pH exactly 7 (no solute, or *)
(* a stock of pH 7) represented by NeutralPH, and "no value" by NullPH.    *)

NullPH == [ defined |-> FALSE, solutePH |-> 7, fraction |-> Zero ]

NeutralPH == [ defined |-> TRUE, solutePH |-> 7, fraction |-> Zero ]

computePH(solutePH, sVolume, wVolume) ==
  LET solutionVolume == Add(sVolume, wVolume) IN
  IF solutionVolume = Zero THEN NullPH
  ELSE IF solutePH = 7 \/ sVolume = Zero THEN NeutralPH
  ELSE [ defined |-> TRUE, solutePH |-> solutePH, fraction |-> Div(sVolume, solutionVolume) ]

-----------------------------------------------------------------------------
(* Colors.  Solute.computeColor interpolates between the solvent color and *)
(* the stock color of the solute; a computed color is represented by the   *)
(* solute and the fraction it was computed from.                           *)

BLACK == [ kind |-> "BLACK", solute |-> "", fraction |-> Zero ]

WaterColor == [ kind |-> "WATER", solute |-> "", fraction |-> Zero ]

computeColor(sol, fraction) == [ kind |-> "COMPUTED", solute |-> sol.name, fraction |-> fraction ]

-----------------------------------------------------------------------------
(* Faucet, Dropper and the MacroModel listeners *)

\* Faucet: a faucet that is disabled is turned off
setWaterFaucetEnabled(s, enabled) ==
  IF s.waterFaucetEnabled = enabled THEN s
  ELSE [ s EXCEPT !.waterFaucetEnabled = enabled,
                  !.waterFaucetFlowRate = IF enabled THEN @ ELSE Zero ]

setDrainFaucetEnabled(s, enabled) ==
  IF s.drainFaucetEnabled = enabled THEN s
  ELSE [ s EXCEPT !.drainFaucetEnabled = enabled,
                  !.drainFaucetFlowRate = IF enabled THEN @ ELSE Zero ]

\* Dropper: the flow rate follows isDispensing
setDispensing(s, dispensing) ==
  IF s.isDispensing = dispensing THEN s
  ELSE [ s EXCEPT !.isDispensing = dispensing,
                  !.dropperFlowRate = IF dispensing THEN DropperMaxFlowRate ELSE Zero ]

\* Dropper: a dropper that is disabled stops dispensing
setDropperEnabled(s, enabled) ==
  IF s.dropperEnabled = enabled THEN s
  ELSE IF enabled THEN [ s EXCEPT !.dropperEnabled = TRUE ]
  ELSE setDispensing([ s EXCEPT !.dropperEnabled = FALSE ], FALSE)

\* the update leaving the water faucet enabled when the beaker is exactly full
updateFaucetsAndDropper_fullStillOn(s) ==
  LET volume == s.totalVolume
      s1 == setWaterFaucetEnabled(s, Le(volume, BeakerVolume))
      s2 == setDrainFaucetEnabled(s1, Lt(Zero, volume))
  IN setDropperEnabled(s2, Lt(volume, BeakerVolume))


updateFaucetsAndDropper(s) ==
  LET volume == s.totalVolume
      s1 == setWaterFaucetEnabled(s, Lt(volume, BeakerVolume))
      s2 == setDrainFaucetEnabled(s1, Lt(Zero, volume))
  IN setDropperEnabled(s2, Lt(volume, BeakerVolume))

\* startAutofill that does not look at the configuration
startAutofill_always(s) ==
  [ setDispensing([ s EXCEPT !.isAutofilling = TRUE ], TRUE)
      EXCEPT !.dropperFlowRate = AutofillFlowRate ]


startAutofill(s) ==
  IF s.autofillEnabled /\ Lt(Zero, s.autofillVolume)
  THEN [ setDispensing([ s EXCEPT !.isAutofilling = TRUE ], TRUE)
           EXCEPT !.dropperFlowRate = AutofillFlowRate ]
  ELSE updateFaucetsAndDropper(s)

\* stopAutofill that leaves the dropper dispensing
stopAutofill_stillDispensing(s) ==
  updateFaucetsAndDropper([ s EXCEPT !.isAutofilling = FALSE ])

stopAutofill(s) ==
  updateFaucetsAndDropper(setDispensing([ s EXCEPT !.isAutofilling = FALSE ], FALSE))

\* the model's listener without the test of the restoring flag
modelSoluteListener_whileRestoring(s) ==
  startAutofill(setDrainFaucetEnabled(setWaterFaucetEnabled(s, FALSE), FALSE))

\* the model's listener starting autofill without disabling the faucets
modelSoluteListener_faucetsLeftOn(s) ==
  IF ~s.isSettingPhetioState THEN startAutofill(s) ELSE s

\* the listener MacroModel links to dropper.soluteProperty
modelSoluteListener(s) ==
  IF ~s.isSettingPhetioState
  THEN startAutofill(setDrainFaucetEnabled(setWaterFaucetEnabled(s, FALSE), FALSE))
  ELSE s

-----------------------------------------------------------------------------
(* MacroSolution: derived properties *)

totalVolumeDerivation(s) ==
  IF s.ignoreVolumeUpdate THEN s.totalVolume ELSE Add(s.soluteVolume, s.waterVolume)

pHDerivation(s) ==
  IF s.ignoreVolumeUpdate THEN s.pH
  ELSE computePH(s.solute.pH, s.soluteVolume, s.waterVolume)

\* the displayed pH, rounded to PH_METER_DECIMAL_PLACES = 2, is 7.00: the
\* diluted stock adds less than 10^0.005 - 1 (about 1/86) to the neutral concentration
isEquivalentToWater(s) ==
  /\ s.pH.defined
  /\ LET p == s.pH.solutePH
         k == (10 ^ (IF p < 7 THEN 7 - p ELSE p - 7) - 1) * 86
     IN p = 7 \/ s.pH.fraction[1] <= s.pH.fraction[2] \div k

colorDerivation(s) ==
  IF s.ignoreVolumeUpdate THEN s.color
  ELSE IF Add(s.soluteVolume, s.waterVolume) = Zero THEN BLACK
  ELSE IF s.soluteVolume = Zero \/ isEquivalentToWater(s) THEN WaterColor
  ELSE computeColor(s.solute, Div(s.soluteVolume, Add(s.soluteVolume, s.waterVolume)))

\* DerivedProperty: recompute, and notify the listeners when the value changed;
\* MacroModel's updateFaucetsAndDropper is linked to totalVolumeProperty
updateTotalVolume(s) ==
  LET v == totalVolumeDerivation(s) IN
  IF v = s.totalVolume THEN s
  ELSE updateFaucetsAndDropper([ s EXCEPT !.totalVolume = v, !.totalLog = Append(@, v) ])

updatePH(s) ==
  LET v == pHDerivation(s) IN
  IF v = s.pH THEN s
  ELSE [ s EXCEPT !.pH = v, !.pHLog = Append(@, v) ]

\* a computed color is a new Color instance, which never equals the previous value
updateColor(s) ==
  LET v == colorDerivation(s) IN
  IF v = s.color /\ (s.ignoreVolumeUpdate \/ v.kind # "COMPUTED") THEN s
  ELSE [ s EXCEPT !.color = v, !.colorLog = Append(@, v) ]

\* waterVolumeProperty.set: listeners are totalVolumeProperty, pHProperty, colorProperty
setWaterVolume(s, v) ==
  IF v = s.waterVolume THEN s
  ELSE updateColor(updatePH(updateTotalVolume([ s EXCEPT !.waterVolume = v ])))

\* soluteVolumeProperty.set: listeners are totalVolumeProperty, pHProperty, colorProperty
setSoluteVolume(s, v) ==
  IF v = s.soluteVolume THEN s
  ELSE updateColor(updatePH(updateTotalVolume([ s EXCEPT !.soluteVolume = v ])))

-----------------------------------------------------------------------------
(* MacroSolution: operations *)

\* an entry of callLog: the call, its argument, and the volumes it found
Call(s, op, deltaVolume) ==
  [ op |-> op, deltaVolume |-> deltaVolume, soluteVolume |-> s.soluteVolume,
    waterVolume |-> s.waterVolume, totalVolume |-> s.totalVolume ]

logCall(s, op, deltaVolume) == [ s EXCEPT !.callLog = Append(@, Call(s, op, deltaVolume)) ]

\* the solution's listener resetting the water volume only
solutionSoluteListener_waterOnly(s) ==
  IF ~s.isSettingPhetioState THEN setWaterVolume(s, s.initialWaterVolume) ELSE s

\* the listener MacroSolution links to soluteProperty
solutionSoluteListener(s) ==
  IF ~s.isSettingPhetioState
  THEN setSoluteVolume(setWaterVolume(s, s.initialWaterVolume), s.initialSoluteVolume)
  ELSE s

\* reset that empties the beaker instead of restoring the initial volumes
reset_toZero(s) == setWaterVolume(setSoluteVolume(s, Zero), Zero)


reset(s) == setWaterVolume(setSoluteVolume(s, s.initialSoluteVolume), s.initialWaterVolume)

getFreeVolume(s) == Sub(BeakerVolume, s.totalVolume)

\* addSolute without the rise to MIN_VOLUME
addSoluteBody_noSnap(s, deltaVolume) ==
  IF Lt(Zero, deltaVolume)
  THEN setSoluteVolume(s, Add(s.soluteVolume, Min(deltaVolume, getFreeVolume(s))))
  ELSE s


addSoluteBody(s, deltaVolume) ==
  IF Lt(Zero, deltaVolume)
  THEN setSoluteVolume(s, Max(MIN_VOLUME, Add(s.soluteVolume, Min(deltaVolume, getFreeVolume(s)))))
  ELSE s

addSolute(s, deltaVolume) == addSoluteBody(logCall(s, "addSolute", deltaVolume), deltaVolume)

\* addWater that adds whatever it is given
addWaterBody_unguarded(s, deltaVolume) ==
  setWaterVolume(s, Add(s.waterVolume, Min(deltaVolume, getFreeVolume(s))))


addWaterBody(s, deltaVolume) ==
  IF Lt(Zero, deltaVolume)
  THEN setWaterVolume(s, Max(MIN_VOLUME, Add(s.waterVolume, Min(deltaVolume, getFreeVolume(s)))))
  ELSE s

addWater(s, deltaVolume) == addWaterBody(logCall(s, "addWater", deltaVolume), deltaVolume)

\* setVolumeAtomic that suppresses the first notification when either volume changes
setVolumeAtomic_ignoringEither(s, wVolume, sVolume) ==
  LET s1 == [ s EXCEPT !.ignoreVolumeUpdate = (wVolume # s.waterVolume) \/ (sVolume # s.soluteVolume) ]
      s2 == setWaterVolume(s1, wVolume)
      s3 == [ s2 EXCEPT !.ignoreVolumeUpdate = FALSE ]
  IN setSoluteVolume(s3, sVolume)

\* setVolumeAtomic without the suppression of the first notification
setVolumeAtomic_notIgnoring(s, wVolume, sVolume) ==
  setSoluteVolume(setWaterVolume(s, wVolume), sVolume)

\* setVolumeAtomic that does not clear the suppression before the second write
setVolumeAtomic_stillIgnoring(s, wVolume, sVolume) ==
  LET s1 == [ s EXCEPT !.ignoreVolumeUpdate = (wVolume # s.waterVolume) /\ (sVolume # s.soluteVolume) ]
      s2 == setSoluteVolume(setWaterVolume(s1, wVolume), sVolume)
  IN [ s2 EXCEPT !.ignoreVolumeUpdate = FALSE ]


setVolumeAtomic(s, wVolume, sVolume) ==
  LET s1 == [ s EXCEPT !.ignoreVolumeUpdate = (wVolume # s.waterVolume) /\ (sVolume # s.soluteVolume) ]
      s2 == setWaterVolume(s1, wVolume)
      s3 == [ s2 EXCEPT !.ignoreVolumeUpdate = FALSE ]
  IN setSoluteVolume(s3, sVolume)

\* drainSolution without the branch that empties a nearly empty beaker
drainSolutionBody_noEmptying(s, deltaVolume) ==
  IF Lt(Zero, deltaVolume) /\ Lt(Zero, s.totalVolume)
  THEN setVolumeAtomic(s,
         Sub(s.waterVolume, Div(Mul(deltaVolume, s.waterVolume), s.totalVolume)),
         Sub(s.soluteVolume, Div(Mul(deltaVolume, s.soluteVolume), s.totalVolume)))
  ELSE s

\* drainSolution that takes the same volume, not the same share, from water and solute
drainSolutionBody_equalParts(s, deltaVolume) ==
  IF Lt(Zero, deltaVolume) /\ Lt(Zero, s.totalVolume)
  THEN IF Lt(Sub(s.totalVolume, deltaVolume), MIN_VOLUME)
       THEN setVolumeAtomic(s, Zero, Zero)
       ELSE setVolumeAtomic(s,
              Max(Zero, Sub(s.waterVolume, Div(deltaVolume, <<2, 1>>))),
              Max(Zero, Sub(s.soluteVolume, Div(deltaVolume, <<2, 1>>))))
  ELSE s


drainSolutionBody(s, deltaVolume) ==
  IF Lt(Zero, deltaVolume) /\ Lt(Zero, s.totalVolume)
  THEN IF Lt(Sub(s.totalVolume, deltaVolume), MIN_VOLUME)
       THEN setVolumeAtomic(s, Zero, Zero)
       ELSE setVolumeAtomic(s,
              Sub(s.waterVolume, Div(Mul(deltaVolume, s.waterVolume), s.totalVolume)),
              Sub(s.soluteVolume, Div(Mul(deltaVolume, s.soluteVolume), s.totalVolume)))
  ELSE s

drainSolution(s, deltaVolume) == drainSolutionBody(logCall(s, "drainSolution", deltaVolume), deltaVolume)

\* a solute change that skips the solution's listener
setSolute_noReset(s, newSolute) ==
  IF newSolute = s.solute THEN s
  ELSE modelSoluteListener(updateColor(updatePH([ s EXCEPT !.solute = newSolute ])))

\* soluteProperty.set: listeners are pHProperty, colorProperty, the solution's
\* link and the model's link, in the order they were registered
setSolute(s, newSolute) ==
  IF newSolute = s.solute THEN s
  ELSE modelSoluteListener(solutionSoluteListener(
         updateColor(updatePH([ s EXCEPT !.solute = newSolute ]))))

-----------------------------------------------------------------------------
(* MacroModel: step *)

\* an autofill tick that does not cap the added volume at the target
stepAutofill_noCap(s, dt) ==
  LET s1 == addSolute(s, Mul(s.dropperFlowRate, dt))
  IN IF s1.totalVolume = s.autofillVolume THEN stopAutofill(s1) ELSE s1


stepAutofill(s, dt) ==
  LET s1 == addSolute(s, Min(Mul(s.dropperFlowRate, dt), Sub(s.autofillVolume, s.totalVolume)))
  IN IF s1.totalVolume = s.autofillVolume THEN stopAutofill(s1) ELSE s1

\* a tick that drains before it adds
stepFlowing_drainFirst(s, dt) ==
  LET s1 == drainSolution(s, Mul(s.drainFaucetFlowRate, dt))
      s2 == addSolute(s1, Mul(s1.dropperFlowRate, dt))
  IN addWater(s2, Mul(s2.waterFaucetFlowRate, dt))


stepFlowing(s, dt) ==
  LET s1 == addSolute(s, Mul(s.dropperFlowRate, dt))
      s2 == addWater(s1, Mul(s1.waterFaucetFlowRate, dt))
  IN drainSolution(s2, Mul(s2.drainFaucetFlowRate, dt))

step(s, dt) == IF s.isAutofilling THEN stepAutofill(s, dt) ELSE stepFlowing(s, dt)

-----------------------------------------------------------------------------
(* RatioNode: the numbers of H3O+ and OH- molecules drawn for a pH *)

TOTAL_MOLECULES_AT_PH_7 == 100

MAX_MAJORITY_MOLECULES == 3000

MIN_MINORITY_MOLECULES == 5

PH_METER_DECIMAL_PLACES == 2

LOG_PH_RANGE == [ min |-> << 6, 1 >>, max |-> << 8, 1 >> ]

PH_RANGE == [ min |-> << 0, 1 >>, max |-> << 14, 1 >> ]

\* null, where a number is expected
NullNumber == << 0, 0 >>

\* an integer as a rational
Num(n) == << n, 1 >>

\* Util.roundSymmetric: to the nearest integer, halves away from zero
roundSymmetric(x) ==
  IF x[1] < 0 THEN -((2 * (-x[1]) + x[2]) \div (2 * x[2]))
  ELSE (2 * x[1] + x[2]) \div (2 * x[2])

\* Util.toFixedNumber: the number rounded to so many decimal places
toFixedNumber(value, decimalPlaces) ==
  Rat(roundSymmetric(Mul(value, Num(10 ^ decimalPlaces))), 10 ^ decimalPlaces)

\* 10^x to six decimal places, times 10^6, for x = -1.00, -0.99, ... , 1.00
PowersOfTen ==
  <<
     100000, 102329, 104713, 107152, 109648, 112202, 114815, 117490, 120226, 123027,
     125893, 128825, 131826, 134896, 138038, 141254, 144544, 147911, 151356, 154882,
     158489, 162181, 165959, 169824, 173780, 177828, 181970, 186209, 190546, 194984,
     199526, 204174, 208930, 213796, 218776, 223872, 229087, 234423, 239883, 245471,
     251189, 257040, 263027, 269153, 275423, 281838, 288403, 295121, 301995, 309030,
     316228, 323594, 331131, 338844, 346737, 354813, 363078, 371535, 380189, 389045,
     398107, 407380, 416869, 426580, 436516, 446684, 457088, 467735, 478630, 489779,
     501187, 512861, 524807, 537032, 549541, 562341, 575440, 588844, 602560, 616595,
     630957, 645654, 660693, 676083, 691831, 707946, 724436, 741310, 758578, 776247,
     794328, 812831, 831764, 851138, 870964, 891251, 912011, 933254, 954993, 977237,
     1000000, 1023293, 1047129, 1071519, 1096478, 1122018, 1148154, 1174898, 1202264, 1230269,
     1258925, 1288250, 1318257, 1348963, 1380384, 1412538, 1445440, 1479108, 1513561, 1548817,
     1584893, 1621810, 1659587, 1698244, 1737801, 1778279, 1819701, 1862087, 1905461, 1949845,
     1995262, 2041738, 2089296, 2137962, 2187762, 2238721, 2290868, 2344229, 2398833, 2454709,
     2511886, 2570396, 2630268, 2691535, 2754229, 2818383, 2884032, 2951209, 3019952, 3090295,
     3162278, 3235937, 3311311, 3388442, 3467369, 3548134, 3630781, 3715352, 3801894, 3890451,
     3981072, 4073803, 4168694, 4265795, 4365158, 4466836, 4570882, 4677351, 4786301, 4897788,
     5011872, 5128614, 5248075, 5370318, 5495409, 5623413, 5754399, 5888437, 6025596, 6165950,
     6309573, 6456542, 6606934, 6760830, 6918310, 7079458, 7244360, 7413102, 7585776, 7762471,
     7943282, 8128305, 8317638, 8511380, 8709636, 8912509, 9120108, 9332543, 9549926, 9772372,
     10000000
  >>

\* Math.pow(10, x) for x a multiple of 0.01 in [-1, 1]
TenToThe(x) == Rat(PowersOfTen[Mul(x, Num(100))[1] + 101], 1000000)

\* PHModel.pHToConcentrationH3O, in units of 1E-7 mol/L
pHToConcentrationH3O(p) == TenToThe(Sub(Num(7), p))

\* PHModel.pHToConcentrationOH, in units of 1E-7 mol/L
pHToConcentrationOH(p) == pHToConcentrationH3O(Sub(Num(14), p))

\* the number of H3O+ without the scale TOTAL_MOLECULES_AT_PH_7 / 2
computeNumberOfH3O_unscaled(p) == roundSymmetric(pHToConcentrationH3O(p))


computeNumberOfH3O(p) ==
  roundSymmetric(Mul(pHToConcentrationH3O(p), Rat(TOTAL_MOLECULES_AT_PH_7, 2)))

computeNumberOfOH(p) ==
  roundSymmetric(Mul(pHToConcentrationOH(p), Rat(TOTAL_MOLECULES_AT_PH_7, 2)))

\* the counts whose linear part starts from nothing at the ends of the
\* logarithmic range
numberOfMolecules_linearFromZero(p) ==
  IF p = NullNumber THEN [ H3O |-> 0, OH |-> 0 ]
  ELSE IF Le(LOG_PH_RANGE.min, p) /\ Le(p, LOG_PH_RANGE.max)
  THEN [ H3O |-> roundSymmetric(Max(Num(MIN_MINORITY_MOLECULES), Num(computeNumberOfH3O(p)))),
         OH |-> roundSymmetric(Max(Num(MIN_MINORITY_MOLECULES), Num(computeNumberOfOH(p)))) ]
  ELSE LET N == Div(Num(MAX_MAJORITY_MOLECULES), Sub(PH_RANGE.max, LOG_PH_RANGE.max))
       IN IF Lt(LOG_PH_RANGE.max, p)
          THEN LET pHDiff == Sub(p, LOG_PH_RANGE.max) IN
               [ H3O |-> roundSymmetric(Max(Num(MIN_MINORITY_MOLECULES),
                                            Sub(Num(computeNumberOfH3O(LOG_PH_RANGE.max)), pHDiff))),
                 OH |-> roundSymmetric(Mul(pHDiff, N)) ]
          ELSE LET pHDiff == Sub(LOG_PH_RANGE.min, p) IN
               [ H3O |-> roundSymmetric(Mul(pHDiff, N)),
                 OH |-> roundSymmetric(Max(Num(MIN_MINORITY_MOLECULES),
                                           Sub(Num(computeNumberOfOH(LOG_PH_RANGE.min)), pHDiff))) ]

\* the counts computed without the floor of the minority species
numberOfMolecules_noFloor(p) ==
  IF p = NullNumber THEN [ H3O |-> 0, OH |-> 0 ]
  ELSE IF Le(LOG_PH_RANGE.min, p) /\ Le(p, LOG_PH_RANGE.max)
  THEN [ H3O |-> computeNumberOfH3O(p), OH |-> computeNumberOfOH(p) ]
  ELSE LET N == Div(Num(MAX_MAJORITY_MOLECULES - computeNumberOfOH(LOG_PH_RANGE.max)),
                    Sub(PH_RANGE.max, LOG_PH_RANGE.max))
       IN IF Lt(LOG_PH_RANGE.max, p)
          THEN LET pHDiff == Sub(p, LOG_PH_RANGE.max) IN
               [ H3O |-> roundSymmetric(Sub(Num(computeNumberOfH3O(LOG_PH_RANGE.max)), pHDiff)),
                 OH |-> roundSymmetric(Add(Num(computeNumberOfOH(LOG_PH_RANGE.max)), Mul(pHDiff, N))) ]
          ELSE LET pHDiff == Sub(LOG_PH_RANGE.min, p) IN
               [ H3O |-> roundSymmetric(Add(Num(computeNumberOfH3O(LOG_PH_RANGE.min)), Mul(pHDiff, N))),
                 OH |-> roundSymmetric(Sub(Num(computeNumberOfOH(LOG_PH_RANGE.min)), pHDiff)) ]


\* the body of update() that computes numberOfH3O and numberOfOH for a pH
\* already rounded to PH_METER_DECIMAL_PLACES, or null
numberOfMolecules(p) ==
  IF p = NullNumber THEN [ H3O |-> 0, OH |-> 0 ]
  ELSE IF Le(LOG_PH_RANGE.min, p) /\ Le(p, LOG_PH_RANGE.max)
  THEN [ H3O |-> roundSymmetric(Max(Num(MIN_MINORITY_MOLECULES), Num(computeNumberOfH3O(p)))),
         OH |-> roundSymmetric(Max(Num(MIN_MINORITY_MOLECULES), Num(computeNumberOfOH(p)))) ]
  ELSE LET N == Div(Num(MAX_MAJORITY_MOLECULES - computeNumberOfOH(LOG_PH_RANGE.max)),
                    Sub(PH_RANGE.max, LOG_PH_RANGE.max))
       IN IF Lt(LOG_PH_RANGE.max, p)
          THEN LET pHDiff == Sub(p, LOG_PH_RANGE.max) IN
               [ H3O |-> roundSymmetric(Max(Num(MIN_MINORITY_MOLECULES),
                                            Sub(Num(computeNumberOfH3O(LOG_PH_RANGE.max)), pHDiff))),
                 OH |-> roundSymmetric(Add(Num(computeNumberOfOH(LOG_PH_RANGE.max)), Mul(pHDiff, N))) ]
          ELSE LET pHDiff == Sub(LOG_PH_RANGE.min, p) IN
               [ H3O |-> roundSymmetric(Add(Num(computeNumberOfH3O(LOG_PH_RANGE.min)), Mul(pHDiff, N))),
                 OH |-> roundSymmetric(Max(Num(MIN_MINORITY_MOLECULES),
                                           Sub(Num(computeNumberOfOH(LOG_PH_RANGE.min)), pHDiff))) ]

\* the opacities of the images of the majority and of the minority species
MAJORITY_ALPHA == <<11, 20>>

MINORITY_ALPHA == <<1, 1>>

\* the outcomes of the random number generator over one drawing: a stream
\* names the sequence of values that createRandomX and createRandomY return
RandomStreams == { 1, 2 }

\* the stream of an array as allocated: every entry is zero
Allocated == 0

\* the loop of drawMolecules over one species: the entries of its x and y
\* arrays at the indices below numberOfMolecules are assigned from the random
\* stream; the entries from numberOfMolecules on are not assigned. A pair of
\* arrays is held as the latest such assignment: its length and its stream.
randomize(xy, count, stream) ==
  IF count > 0 THEN [ length |-> count, stream |-> stream ] ELSE xy

\* drawMolecules without the comparison of the counts
drawMolecules_always(r, numberOfH3OMolecules, numberOfOHMolecules, stream) ==
  [ r EXCEPT !.xyH3O = randomize(@, numberOfH3OMolecules, stream),
             !.xyOH = randomize(@, numberOfOHMolecules, stream),
             !.numberOfH3OMolecules = numberOfH3OMolecules,
             !.numberOfOHMolecules = numberOfOHMolecules,
             !.written = [ H3O |-> numberOfH3OMolecules, OH |-> numberOfOHMolecules ] ]

\* MoleculesCanvas.drawMolecules: when a count differs, coordinates are written
\* at the indices below each new count, and the counts are stored
drawMolecules(r, numberOfH3OMolecules, numberOfOHMolecules, stream) ==
  IF numberOfH3OMolecules # r.numberOfH3OMolecules \/ numberOfOHMolecules # r.numberOfOHMolecules
  THEN [ r EXCEPT !.xyH3O = randomize(@, numberOfH3OMolecules, stream),
                  !.xyOH = randomize(@, numberOfOHMolecules, stream),
                  !.numberOfH3OMolecules = numberOfH3OMolecules,
                  !.numberOfOHMolecules = numberOfOHMolecules,
                  !.written = [ H3O |-> numberOfH3OMolecules, OH |-> numberOfOHMolecules ] ]
  ELSE r

\* paintCanvas that paints H3O first whatever the counts
paintCanvas_H3OFirst(r) ==
  [ r EXCEPT !.painted =
      << [ species |-> "H3O", numberOfMolecules |-> r.numberOfH3OMolecules, alpha |-> MAJORITY_ALPHA ],
         [ species |-> "OH", numberOfMolecules |-> r.numberOfOHMolecules, alpha |-> MINORITY_ALPHA ] >> ]

\* MoleculesCanvas.paintCanvas: two calls of paintMolecules, each with the
\* image of its opacity (the four images exist once the constructor has
\* returned); painted lists the calls in their order
paintCanvas(r) ==
  [ r EXCEPT !.painted =
      IF r.numberOfH3OMolecules > r.numberOfOHMolecules
      THEN << [ species |-> "H3O", numberOfMolecules |-> r.numberOfH3OMolecules, alpha |-> MAJORITY_ALPHA ],
              [ species |-> "OH", numberOfMolecules |-> r.numberOfOHMolecules, alpha |-> MINORITY_ALPHA ] >>
      ELSE << [ species |-> "OH", numberOfMolecules |-> r.numberOfOHMolecules, alpha |-> MAJORITY_ALPHA ],
              [ species |-> "H3O", numberOfMolecules |-> r.numberOfH3OMolecules, alpha |-> MINORITY_ALPHA ] >> ]

\* the listener of solution.volumeProperty: the clip area is null for an
\* empty beaker, else the fraction of the beaker that the solution fills
volumeListener(r, volume) ==
  [ r EXCEPT !.clipArea = IF volume = Zero THEN NullNumber ELSE Div(volume, BeakerVolume) ]

\* update that does nothing when the pH is null
update_ignoringNull(r, value, stream) ==
  IF ~r.visible \/ value = NullNumber THEN r
  ELSE LET p == toFixedNumber(value, PH_METER_DECIMAL_PLACES)
       IN IF r.pH # p
          THEN LET n == numberOfMolecules(p)
               IN drawMolecules([ r EXCEPT !.pH = p ], n.H3O, n.OH, stream)
          ELSE r


\* RatioNode.update, the listener of solution.pHProperty
update(r, value, stream) ==
  IF ~r.visible THEN r
  ELSE LET p == IF value # NullNumber THEN toFixedNumber(value, PH_METER_DECIMAL_PLACES)
                ELSE NullNumber
       IN IF r.pH # p
          THEN LET n == numberOfMolecules(p)
               IN drawMolecules([ r EXCEPT !.pH = p ], n.H3O, n.OH, stream)
          ELSE r

\* setVisible that only sets the visibility
setVisible_withoutUpdate(r, visible, value, stream) ==
  [ r EXCEPT !.visible = visible ]

\* RatioNode.setVisible
setVisible(r, visible, value, stream) ==
  LET doUpdate == visible /\ ~r.visible
      r1 == [ r EXCEPT !.visible = visible ]
  IN IF doUpdate THEN update(r1, value, stream) ELSE r1

\* the length of each of the coordinate arrays xH3O, yH3O, xOH, yOH
CoordinateArrayLength == MAX_MAJORITY_MOLECULES

\* new RatioNode(...): the options set the visibility, then the link to
\* pHProperty calls update once and the link to volumeProperty sets the clip
\* area; written is the number of entries of the coordinate arrays of each
\* species that the last drawing wrote, painted the calls of the last paint
RatioNodeConstructed(visible, value, volume, stream) ==
  volumeListener(
    update([ visible |-> visible, pH |-> NullNumber,
             numberOfH3OMolecules |-> 0, numberOfOHMolecules |-> 0,
             xyH3O |-> [ length |-> CoordinateArrayLength, stream |-> Allocated ],
             xyOH |-> [ length |-> CoordinateArrayLength, stream |-> Allocated ],
             written |-> [ H3O |-> 0, OH |-> 0 ],
             painted |-> << >>,
             clipArea |-> NullNumber ], value, stream),
    volume)

-----------------------------------------------------------------------------
(* The state machine *)

Cur ==
  [ solute |-> solute, soluteVolume |-> soluteVolume, waterVolume |-> waterVolume,
    totalVolume |-> totalVolume, pH |-> pH, color |-> color,
    ignoreVolumeUpdate |-> ignoreVolumeUpdate,
    initialSoluteVolume |-> initialSoluteVolume, initialWaterVolume |-> initialWaterVolume,
    dropperFlowRate |-> dropperFlowRate, isDispensing |-> isDispensing,
    dropperEnabled |-> dropperEnabled,
    waterFaucetFlowRate |-> waterFaucetFlowRate, waterFaucetEnabled |-> waterFaucetEnabled,
    drainFaucetFlowRate |-> drainFaucetFlowRate, drainFaucetEnabled |-> drainFaucetEnabled,
    isAutofilling |-> isAutofilling, autofillEnabled |-> autofillEnabled,
    autofillVolume |-> autofillVolume,
    isSettingPhetioState |-> isSettingPhetioState,
    totalLog |-> << >>, pHLog |-> << >>, colorLog |-> << >>, callLog |-> << >> ]

\* the state right after new MacroModel(...): the solution and the faucets are
\* constructed, then the two links run their listeners once
Constructed(autofill, target, sVolume, wVolume) ==
  LET total == Add(sVolume, wVolume)
      base == [ solute |-> WATER, soluteVolume |-> sVolume, waterVolume |-> wVolume,
                totalVolume |-> total, pH |-> computePH(WATER.pH, sVolume, wVolume),
                color |-> IF total = Zero THEN BLACK ELSE WaterColor,
                ignoreVolumeUpdate |-> FALSE,
                initialSoluteVolume |-> sVolume, initialWaterVolume |-> wVolume,
                dropperFlowRate |-> Zero, isDispensing |-> FALSE, dropperEnabled |-> TRUE,
                waterFaucetFlowRate |-> Zero, waterFaucetEnabled |-> Lt(total, BeakerVolume),
                drainFaucetFlowRate |-> Zero, drainFaucetEnabled |-> Lt(Zero, total),
                isAutofilling |-> FALSE, autofillEnabled |-> autofill,
                autofillVolume |-> target,
                isSettingPhetioState |-> FALSE,
                totalLog |-> << >>, pHLog |-> << >>, colorLog |-> << >>, callLog |-> << >> ]
  IN updateFaucetsAndDropper(modelSoluteListener(base))

Is(s) ==
  /\ solute = s.solute
  /\ soluteVolume = s.soluteVolume
  /\ waterVolume = s.waterVolume
  /\ totalVolume = s.totalVolume
  /\ pH = s.pH
  /\ color = s.color
  /\ ignoreVolumeUpdate = s.ignoreVolumeUpdate
  /\ initialSoluteVolume = s.initialSoluteVolume
  /\ initialWaterVolume = s.initialWaterVolume
  /\ dropperFlowRate = s.dropperFlowRate
  /\ isDispensing = s.isDispensing
  /\ dropperEnabled = s.dropperEnabled
  /\ waterFaucetFlowRate = s.waterFaucetFlowRate
  /\ waterFaucetEnabled = s.waterFaucetEnabled
  /\ drainFaucetFlowRate = s.drainFaucetFlowRate
  /\ drainFaucetEnabled = s.drainFaucetEnabled
  /\ isAutofilling = s.isAutofilling
  /\ autofillEnabled = s.autofillEnabled
  /\ autofillVolume = s.autofillVolume
  /\ isSettingPhetioState = s.isSettingPhetioState
  /\ totalLog = s.totalLog
  /\ pHLog = s.pHLog
  /\ colorLog = s.colorLog
  /\ callLog = s.callLog

Becomes(s) ==
  /\ solute' = s.solute
  /\ soluteVolume' = s.soluteVolume
  /\ waterVolume' = s.waterVolume
  /\ totalVolume' = s.totalVolume
  /\ pH' = s.pH
  /\ color' = s.color
  /\ ignoreVolumeUpdate' = s.ignoreVolumeUpdate
  /\ initialSoluteVolume' = s.initialSoluteVolume
  /\ initialWaterVolume' = s.initialWaterVolume
  /\ dropperFlowRate' = s.dropperFlowRate
  /\ isDispensing' = s.isDispensing
  /\ dropperEnabled' = s.dropperEnabled
  /\ waterFaucetFlowRate' = s.waterFaucetFlowRate
  /\ waterFaucetEnabled' = s.waterFaucetEnabled
  /\ drainFaucetFlowRate' = s.drainFaucetFlowRate
  /\ drainFaucetEnabled' = s.drainFaucetEnabled
  /\ isAutofilling' = s.isAutofilling
  /\ autofillEnabled' = s.autofillEnabled
  /\ autofillVolume' = s.autofillVolume
  /\ isSettingPhetioState' = s.isSettingPhetioState
  /\ totalLog' = s.totalLog
  /\ pHLog' = s.pHLog
  /\ colorLog' = s.colorLog
  /\ callLog' = s.callLog

NoOp == [ name |-> "none", arg |-> Zero ]

Init ==
  /\ \E autofill \in BOOLEAN, target \in AutofillVolumes, v \in InitialVolumes :
       Is(Constructed(autofill, target, v[1], v[2]))
  /\ lastOp = NoOp
  /\ pre = Cur
  /\ steps = 0
  /\ scenario = 0
  /\ pHNumber = NullNumber
  /\ ratioNode = RatioNodeConstructed(FALSE, NullNumber, Zero, Allocated)
  /\ ratioPre = [ pHNumber |-> pHNumber, ratioNode |-> ratioNode ]

\* the scenario: from an empty solution, addWater(0.5), then the solute is
\* replaced by a stock of pH 2, then addSolute(0.3); -1 once the run has left it
scenarioAfter(name, arg) ==
  IF scenario = 0 /\ steps = 0 /\ Add(soluteVolume, waterVolume) = Zero /\ name = "addWater"
  THEN (IF arg = <<1, 2>> THEN 1 ELSE -1)
  ELSE IF scenario = 1 /\ name = "setSolute"
  THEN (IF arg = VOMIT THEN 2 ELSE -1)
  ELSE IF scenario = 2 /\ name = "addSolute"
  THEN (IF arg = <<3, 10>> THEN 3 ELSE -1)
  ELSE -1

\* one operation: the program goes from Cur to s
Does(name, arg, s) ==
  /\ steps < MaxSteps
  /\ Becomes(s)
  /\ lastOp' = [ name |-> name, arg |-> arg ]
  /\ pre' = Cur
  /\ steps' = steps + 1
  /\ scenario' = scenarioAfter(name, arg)
  /\ UNCHANGED << pHNumber, ratioNode, ratioPre >>

AddSolute == \E deltaVolume \in SoluteDeltas : Does("addSolute", deltaVolume, addSolute(Cur, deltaVolume))

AddWater == \E deltaVolume \in WaterDeltas : Does("addWater", deltaVolume, addWater(Cur, deltaVolume))

DrainSolution == \E deltaVolume \in DrainDeltas : Does("drainSolution", deltaVolume, drainSolution(Cur, deltaVolume))

Reset == Does("reset", Zero, reset(Cur))

SetSolute == \E newSolute \in Solutes : Does("setSolute", newSolute, setSolute(Cur, newSolute))

\* the host starts or finishes restoring persisted state
SetRestoring == Does("setRestoring", Zero, [ Cur EXCEPT !.isSettingPhetioState = ~@ ])

Step == \E dt \in Dts : Does("step", dt, step(Cur, dt))

\* the user drags the handle of the water faucet
UserWaterFaucet ==
  /\ waterFaucetEnabled
  /\ \E rate \in { Zero, FaucetMaxFlowRate } :
       Does("userWaterFaucet", rate, [ Cur EXCEPT !.waterFaucetFlowRate = rate ])

\* the user drags the handle of the drain faucet
UserDrainFaucet ==
  /\ drainFaucetEnabled
  /\ \E rate \in { Zero, FaucetMaxFlowRate } :
       Does("userDrainFaucet", rate, [ Cur EXCEPT !.drainFaucetFlowRate = rate ])

\* the user presses or releases the button of the dropper
UserDropper ==
  /\ dropperEnabled
  /\ \E dispensing \in BOOLEAN :
       Does("userDropper", dispensing, setDispensing(Cur, dispensing))

\* the solution driven through its public operations
Next == AddSolute \/ AddWater \/ DrainSolution \/ Reset \/ SetSolute \/ SetRestoring

Spec == Init /\ [][Next]_vars

\* the model driven by ticks and by the user
ModelNext == Step \/ SetSolute \/ UserWaterFaucet \/ UserDrainFaucet \/ UserDropper \/ SetRestoring

ModelSpec == Init /\ [][ModelNext]_vars

\* the solution's operations called with arguments of any sign and size
AddSoluteAny == \E deltaVolume \in EdgeDeltas : Does("addSolute", deltaVolume, addSolute(Cur, deltaVolume))

AddWaterAny == \E deltaVolume \in EdgeDeltas : Does("addWater", deltaVolume, addWater(Cur, deltaVolume))

DrainSolutionAny == \E deltaVolume \in EdgeDeltas : Does("drainSolution", deltaVolume, drainSolution(Cur, deltaVolume))

EdgeNext == AddSoluteAny \/ AddWaterAny \/ DrainSolutionAny \/ Reset \/ SetSolute

EdgeSpec == Init /\ [][EdgeNext]_vars

\* the variables of the Macro screen's model, which the ratio view does not touch
modelVars == << solute, soluteVolume, waterVolume, totalVolume, pH, color, ignoreVolumeUpdate,
                initialSoluteVolume, initialWaterVolume,
                dropperFlowRate, isDispensing, dropperEnabled,
                waterFaucetFlowRate, waterFaucetEnabled, drainFaucetFlowRate, drainFaucetEnabled,
                isAutofilling, autofillEnabled, autofillVolume, isSettingPhetioState,
                totalLog, pHLog, colorLog, callLog, pre, steps, scenario >>

PHValues == { NullNumber } \cup { Rat(m, 1000) : m \in PHThousandths }

\* one operation on the ratio view or on the pH it observes
RatioDoes(name, arg, value, r) ==
  /\ pHNumber' = value
  /\ ratioNode' = r
  /\ ratioPre' = [ pHNumber |-> pHNumber, ratioNode |-> ratioNode ]
  /\ lastOp' = [ name |-> name, arg |-> arg ]
  /\ UNCHANGED modelVars

\* pHProperty.set: the listener update runs when the value changed
SetPHAmong(values) ==
  \E value \in values, stream \in RandomStreams :
    /\ value # pHNumber
    /\ RatioDoes("setPH", value, value, update(ratioNode, value, stream))

SetPH == SetPHAmong(PHValues)

\* the user shows or hides the ratio view
SetVisible ==
  \E visible \in BOOLEAN, stream \in RandomStreams :
    RatioDoes("setVisible", visible, pHNumber, setVisible(ratioNode, visible, pHNumber, stream))

RatioNext == SetPH \/ SetVisible

RatioInit ==
  /\ Is(Constructed(FALSE, AutofillVolume, Zero, Zero))
  /\ lastOp = NoOp
  /\ pre = Cur
  /\ steps = 0
  /\ scenario = 0
  /\ \E visible \in BOOLEAN, value \in PHValues, stream \in RandomStreams :
       /\ pHNumber = value
       /\ ratioNode = RatioNodeConstructed(visible, value, BeakerVolume, stream)
  /\ ratioPre = [ pHNumber |-> pHNumber, ratioNode |-> ratioNode ]

\* the ratio view under changes of the pH and of its visibility
RatioSpec == RatioInit /\ [][RatioNext]_vars

\* the displayed pH values: 0.00, 0.01, ... , 14.00
DisplayedPHs == { Rat(c, 10 ^ PH_METER_DECIMAL_PLACES) : c \in 0 .. 14 * 10 ^ PH_METER_DECIMAL_PLACES }

GridInit ==
  /\ Is(Constructed(FALSE, AutofillVolume, Zero, Zero))
  /\ lastOp = NoOp
  /\ pre = Cur
  /\ steps = 0
  /\ scenario = 0
  /\ \E visible \in BOOLEAN, value \in DisplayedPHs \cup { NullNumber }, stream \in RandomStreams :
       /\ pHNumber = value
       /\ ratioNode = RatioNodeConstructed(visible, value, BeakerVolume, stream)
  /\ ratioPre = [ pHNumber |-> pHNumber, ratioNode |-> ratioNode ]

\* the ratio view of a solution of any pH the meter can display, shown and hidden
GridSpec == GridInit /\ [][SetVisible]_vars

\* the volumes of the solution that the ratio view observes
CanvasVolumes == { Zero, BeakerVolume }

\* the pH values of the solution that the canvas is driven with: two that the
\* meter displays alike, and one that it displays differently
CanvasPHs == { <<7, 1>>, <<1751, 250>>, <<8, 1>> }

\* the pairs of counts of direct calls of drawMolecules
DrawCounts == { <<50, 50>>, <<50, 60>>, <<60, 50>> }

\* the display repaints the canvas
Paint == RatioDoes("paint", Zero, pHNumber, paintCanvas(ratioNode))

\* volumeProperty.set: the listener runs when the value changed
SetVolume ==
  \E volume \in CanvasVolumes :
    /\ volumeListener(ratioNode, volume) # ratioNode
    /\ RatioDoes("setVolume", volume, pHNumber, volumeListener(ratioNode, volume))

\* a direct call of drawMolecules
DrawMolecules ==
  \E counts \in DrawCounts, stream \in RandomStreams :
    RatioDoes("drawMolecules", counts, pHNumber, drawMolecules(ratioNode, counts[1], counts[2], stream))

\* pHProperty.set with the values of the canvas
NudgePH == SetPHAmong(CanvasPHs)

CanvasNext == NudgePH \/ SetVisible \/ SetVolume \/ Paint \/ DrawMolecules

CanvasInit ==
  /\ Is(Constructed(FALSE, AutofillVolume, Zero, Zero))
  /\ lastOp = NoOp
  /\ pre = Cur
  /\ steps = 0
  /\ scenario = 0
  /\ \E visible \in BOOLEAN, value \in CanvasPHs, volume \in CanvasVolumes, stream \in RandomStreams :
       /\ pHNumber = value
       /\ ratioNode = RatioNodeConstructed(visible, value, volume, stream)
  /\ ratioPre = [ pHNumber |-> pHNumber, ratioNode |-> ratioNode ]

\* the ratio view and its canvas under every call that reaches them
CanvasSpec == CanvasInit /\ [][CanvasNext]_vars

\* the ratio view of a solution of any pH the meter can display, shown, hidden
\* and painted
PaintSpec == GridInit /\ [][SetVisible \/ Paint]_vars

\* a tick of the animation loop, short ticks included
Tick == \E dt \in AutofillDts : Does("step", dt, step(Cur, dt))

\* the autofill animation: solute changes, ticks, and the user at the dropper
AutofillNext == Tick \/ SetSolute \/ UserDropper \/ SetRestoring

AutofillSpec == Init /\ [][AutofillNext]_vars

-----------------------------------------------------------------------------
(* Properties *)

\* the solute was replaced by a different one while state was not being restored
SoluteReplaced ==
  /\ lastOp.name = "setSolute"
  /\ lastOp.arg # pre.solute
  /\ ~pre.isSettingPhetioState

\* the last operation was a drainSolution call that changed both volumes
DrainedBoth ==
  /\ lastOp.name = "drainSolution"
  /\ waterVolume # pre.waterVolume
  /\ soluteVolume # pre.soluteVolume

\* C1: during a drainSolution call that changes both volumes, a subscriber to
\* pH, to totalVolume or to color is notified at most once, and only of the
\* value computed from the final pair of volumes.
C1_DrainIsAtomic ==
  DrainedBoth =>
    /\ Len(pHLog) <= 1
    /\ \A i \in DOMAIN pHLog : pHLog[i] = computePH(solute.pH, soluteVolume, waterVolume)
    /\ Len(totalLog) <= 1
    /\ \A i \in DOMAIN totalLog : totalLog[i] = Add(soluteVolume, waterVolume)
    /\ Len(colorLog) <= 1
    /\ \A i \in DOMAIN colorLog : colorLog[i] = colorDerivation(Cur)

\* a mixture of water and an acid was drained to nothing: pH, totalVolume and
\* color were each notified once
C1_Witness ==
  /\ DrainedBoth
  /\ pre.solute = VOMIT
  /\ pHLog = << NullPH >>
  /\ totalLog = << Zero >>
  /\ colorLog = << BLACK >>

\* C2: totalVolume never exceeds maxVolume, whatever sequence of addSolute,
\* addWater, drainSolution, reset and solute replacement is applied.
C2_TotalWithinMax ==
  /\ Le(totalVolume, BeakerVolume)
  /\ Le(Add(soluteVolume, waterVolume), BeakerVolume)

\* C3: a drainSolution call that would leave less than the minimum volume
\* leaves both volumes exactly 0, and no drainSolution call leaves a negative volume.
C3_DrainToEmpty ==
  lastOp.name = "drainSolution" =>
    /\ Lt(Sub(pre.totalVolume, lastOp.arg), MIN_VOLUME) => (soluteVolume = Zero /\ waterVolume = Zero)
    /\ Le(Zero, soluteVolume)
    /\ Le(Zero, waterVolume)

\* a mixture was emptied by a drain of less than its total volume
C3_Witness ==
  /\ DrainedBoth
  /\ Lt(lastOp.arg, pre.totalVolume)
  /\ Lt(Sub(pre.totalVolume, lastOp.arg), MIN_VOLUME)
  /\ totalVolume = Zero

\* the volumes a drain of deltaVolume leaves of a mixture, by the rule of equal shares
Share(volume, deltaVolume, total) == Mul(volume, Sub(One, Div(deltaVolume, total)))

\* C4 as stated: every drainSolution(deltaVolume) with 0 < deltaVolume <
\* totalVolume leaves water * (1 - deltaVolume/totalVolume) and
\* solute * (1 - deltaVolume/totalVolume).
C4_Original ==
  (lastOp.name = "drainSolution" /\ Lt(Zero, lastOp.arg) /\ Lt(lastOp.arg, pre.totalVolume)) =>
    /\ waterVolume = Share(pre.waterVolume, lastOp.arg, pre.totalVolume)
    /\ soluteVolume = Share(pre.soluteVolume, lastOp.arg, pre.totalVolume)

\* C4 (amended): every drainSolution(deltaVolume) with deltaVolume > 0 that
\* leaves at least the minimum volume (totalVolume - deltaVolume >= MIN_VOLUME)
\* leaves water * (1 - deltaVolume/totalVolume) and solute * (1 -
\* deltaVolume/totalVolume), so the solute:water ratio is unchanged; water 0.6,
\* solute 0.4, drain 0.5 gives water 0.3, solute 0.2.
C4_DrainKeepsRatio ==
  /\ (lastOp.name = "drainSolution" /\ Lt(Zero, lastOp.arg)
        /\ Le(MIN_VOLUME, Sub(pre.totalVolume, lastOp.arg))) =>
       /\ waterVolume = Share(pre.waterVolume, lastOp.arg, pre.totalVolume)
       /\ soluteVolume = Share(pre.soluteVolume, lastOp.arg, pre.totalVolume)
       /\ Lt(Zero, pre.waterVolume) =>
            Div(soluteVolume, waterVolume) = Div(pre.soluteVolume, pre.waterVolume)
  /\ LET after == drainSolution(Constructed(FALSE, AutofillVolume, <<2, 5>>, <<3, 5>>), <<1, 2>>)
     IN after.waterVolume = <<3, 10>> /\ after.soluteVolume = <<1, 5>>

\* part of a mixture was drained
C4_Witness ==
  /\ DrainedBoth
  /\ Lt(Zero, soluteVolume)
  /\ Lt(Zero, waterVolume)
  /\ totalVolume = Sub(pre.totalVolume, lastOp.arg)

\* C5: replacing the solute while state is not being restored resets both
\* volumes to their construction-time values.
C5_SoluteChangeResetsVolumes ==
  SoluteReplaced =>
    /\ soluteVolume = initialSoluteVolume
    /\ waterVolume = initialWaterVolume

\* the solute of a beaker holding other volumes than the initial ones was replaced
C5_Witness ==
  /\ SoluteReplaced
  /\ pre.soluteVolume # initialSoluteVolume
  /\ pre.waterVolume # initialWaterVolume
  /\ Lt(Zero, Add(initialSoluteVolume, initialWaterVolume))

\* C6: reset() restores both volumes to their construction-time values, and a
\* second reset() changes nothing.
C6_ResetRestoresAndIsIdempotent ==
  /\ lastOp.name = "reset" =>
       /\ soluteVolume = initialSoluteVolume
       /\ waterVolume = initialWaterVolume
       /\ totalVolume = Add(initialSoluteVolume, initialWaterVolume)
  /\ reset(reset(Cur)) = reset(Cur)

\* a beaker holding other volumes than the initial ones was reset
C6_Witness ==
  /\ lastOp.name = "reset"
  /\ pre.soluteVolume # initialSoluteVolume
  /\ pre.waterVolume # initialWaterVolume
  /\ Lt(Zero, Add(initialSoluteVolume, initialWaterVolume))

\* C7 as stated: after addWater(0.5), the replacement of the solute by a stock
\* of pH 2 and addSolute(0.3) on an empty solution, totalVolume is 0.8.
C7_Original == scenario = 3 => totalVolume = <<4, 5>>

\* C7 (amended): after addWater(0.5), the replacement of the solute by a stock
\* of pH 2 and addSolute(0.3) on an empty solution, totalVolume is 0.3: the
\* replacement emptied the beaker of its water, and the solute volume is 0.3.
C7_ScenarioTotal ==
  scenario = 3 =>
    /\ totalVolume = <<3, 10>>
    /\ waterVolume = Zero
    /\ soluteVolume = <<3, 10>>

\* the scenario was run to its end
C7_Witness == scenario = 3 /\ solute = VOMIT /\ lastOp.name = "addSolute"

\* C8: between operations the published pH is null exactly when the beaker is empty.
C8_PHNullIffEmpty == (pH = NullPH) <=> (Add(soluteVolume, waterVolume) = Zero)

\* a mixture with a defined pH was drained to nothing
C8_Witness == DrainedBoth /\ pre.pH # NullPH /\ pH = NullPH

\* the total volume a drain of deltaVolume leaves of a total volume
Drained(total, deltaVolume) ==
  IF ~Lt(Zero, deltaVolume) \/ total = Zero THEN total
  ELSE IF Lt(Sub(total, deltaVolume), MIN_VOLUME) THEN Zero
  ELSE Sub(total, deltaVolume)

\* C9: a tick in the Flowing state calls addSolute, addWater and drainSolution
\* in that order, each with the flow rate of its source times dt, and the drain
\* acts on the total volume left by the two additions.
C9_StepOrder ==
  (lastOp.name = "step" /\ ~pre.isAutofilling) =>
    /\ Len(callLog) = 3
    /\ callLog[1].op = "addSolute"
    /\ callLog[2].op = "addWater"
    /\ callLog[3].op = "drainSolution"
    /\ callLog[1].deltaVolume = Mul(pre.dropperFlowRate, lastOp.arg)
    /\ callLog[2].deltaVolume \in { Mul(pre.waterFaucetFlowRate, lastOp.arg), Zero }
    /\ callLog[3].deltaVolume = Mul(pre.drainFaucetFlowRate, lastOp.arg)
    /\ callLog[1].totalVolume = pre.totalVolume
    /\ Le(callLog[1].soluteVolume, callLog[2].soluteVolume)
    /\ Le(callLog[2].waterVolume, callLog[3].waterVolume)
    /\ callLog[3].soluteVolume = callLog[2].soluteVolume
    /\ callLog[3].totalVolume = Add(callLog[3].soluteVolume, callLog[3].waterVolume)
    /\ totalVolume = Drained(callLog[3].totalVolume, callLog[3].deltaVolume)

\* a tick added solute and water and drained part of the result
C9_Witness ==
  /\ lastOp.name = "step"
  /\ ~pre.isAutofilling
  /\ Lt(pre.soluteVolume, callLog[3].soluteVolume)
  /\ Lt(pre.waterVolume, callLog[3].waterVolume)
  /\ Lt(Zero, totalVolume)
  /\ Lt(totalVolume, callLog[3].totalVolume)
  /\ totalVolume # Drained(pre.totalVolume, callLog[3].deltaVolume)

\* C10: once a solute change made while state is not being restored has been
\* processed, with autofill enabled and a positive autofill volume, the model
\* is autofilling, both faucets are disabled, and the dropper is dispensing at
\* the fast rate 0.75.
C10_SoluteChangeStartsAutofill ==
  (SoluteReplaced /\ autofillEnabled /\ Lt(Zero, autofillVolume)) =>
    /\ isAutofilling
    /\ ~waterFaucetEnabled
    /\ ~drainFaucetEnabled
    /\ isDispensing
    /\ dropperFlowRate = << 3, 4 >>

\* the solute was replaced while the model was Flowing and the water faucet was running
C10_Witness ==
  /\ SoluteReplaced
  /\ autofillEnabled
  /\ ~pre.isAutofilling
  /\ Lt(Zero, pre.waterFaucetFlowRate)
  /\ isAutofilling

\* the argument an autofill tick passes to addSolute
autofillDelta(s, dt) == Min(Mul(s.dropperFlowRate, dt), Sub(s.autofillVolume, s.totalVolume))

\* the last operation was a tick of the autofill animation
AutofillTick == lastOp.name = "step" /\ pre.isAutofilling

C12_AutofillTerminates ==
  /\ AutofillTick =>
       IF isAutofilling
       THEN Lt(pre.totalVolume, totalVolume) /\ Lt(totalVolume, autofillVolume)
       ELSE totalVolume = autofillVolume /\ ~isDispensing /\ dropperFlowRate = Zero
  /\ (pre.isAutofilling /\ ~isAutofilling) => AutofillTick

\* C13: whenever the model is Flowing and an operation has returned, the water
\* faucet and the dropper are enabled if and only if totalVolume < maxVolume
\* (the volume of the beaker), and the drain faucet is enabled if and only if
\* totalVolume > 0.
C13_FlowingEnabledByLevel ==
  ~isAutofilling =>
    /\ waterFaucetEnabled <=> Lt(totalVolume, BeakerVolume)
    /\ dropperEnabled <=> Lt(totalVolume, BeakerVolume)
    /\ drainFaucetEnabled <=> Lt(Zero, totalVolume)

\* water filled the beaker to the brim while the model was Flowing: the water
\* faucet and the dropper went from enabled to disabled
C13_Witness ==
  /\ ~isAutofilling
  /\ lastOp.name = "addWater"
  /\ pre.waterFaucetEnabled /\ pre.dropperEnabled
  /\ totalVolume = BeakerVolume
  /\ ~waterFaucetEnabled /\ ~dropperEnabled /\ drainFaucetEnabled

\* the autofill feature is off: disabled by configuration, or nothing to fill
AutofillOff == ~autofillEnabled \/ ~Lt(Zero, autofillVolume)

\* C14: when the autofill feature is disabled by configuration, or
\* autofillVolume is 0, the model is never Autofilling, and a solute change
\* dispenses no solute: it makes no call that adds solute, does not start the
\* dropper or change a flow rate other than to stop it, leaves the solute
\* volume at its construction-time value (or, while state is being restored,
\* as it was), and leaves the enabled flags of the faucets and the dropper as
\* the fill level dictates.
C14_NoAutofillWhenOff ==
  /\ AutofillOff => ~isAutofilling
  /\ (AutofillOff /\ lastOp.name = "setSolute") =>
       /\ callLog = << >>
       /\ isDispensing => pre.isDispensing
       /\ dropperFlowRate \in { pre.dropperFlowRate, Zero }
       /\ soluteVolume = IF SoluteReplaced THEN initialSoluteVolume ELSE pre.soluteVolume
       /\ waterFaucetEnabled <=> Lt(totalVolume, BeakerVolume)
       /\ dropperEnabled <=> Lt(totalVolume, BeakerVolume)
       /\ drainFaucetEnabled <=> Lt(Zero, totalVolume)

\* with autofill enabled and an autofill volume of 0 the solute of a beaker
\* holding water was replaced: the beaker is empty, the drain faucet went
\* from enabled to disabled, and the model is Flowing
C14_Witness ==
  /\ SoluteReplaced
  /\ autofillEnabled
  /\ autofillVolume = Zero
  /\ Lt(Zero, pre.totalVolume)
  /\ totalVolume = Zero
  /\ pre.drainFaucetEnabled /\ ~drainFaucetEnabled /\ waterFaucetEnabled
  /\ ~isAutofilling

\* the last operation was addSolute or addWater
Added == lastOp.name \in { "addSolute", "addWater" }

\* the volume addSolute or addWater writes, in a state
volumeOf(op, s) == IF op = "addSolute" THEN s.soluteVolume ELSE s.waterVolume

\* the volume addSolute or addWater leaves alone, in a state
otherVolumeOf(op, s) == IF op = "addSolute" THEN s.waterVolume ELSE s.soluteVolume

\* C15: addSolute(deltaVolume) and addWater(deltaVolume) leave soluteVolume,
\* waterVolume and every derived value unchanged whenever deltaVolume <= 0 or
\* freeVolume (maxVolume - totalVolume) <= 0.
C15_NoOpWithoutRoom ==
  (Added /\ (Le(lastOp.arg, Zero) \/ Le(getFreeVolume(pre), Zero))) =>
    /\ soluteVolume = pre.soluteVolume
    /\ waterVolume = pre.waterVolume
    /\ totalVolume = pre.totalVolume
    /\ pH = pre.pH
    /\ color = pre.color
    /\ totalLog = << >> /\ pHLog = << >> /\ colorLog = << >>

\* addSolute or addWater was called with a positive argument and room in the beaker
AddedWithRoom == Added /\ Lt(Zero, lastOp.arg) /\ Lt(Zero, getFreeVolume(pre))

\* C16 as stated: for deltaVolume > 0 and freeVolume > 0, addSolute (resp.
\* addWater) increases soluteVolume (resp. waterVolume) by exactly
\* min(deltaVolume, freeVolume), except that when that increase would be
\* smaller than MIN_VOLUME the volume is snapped up to MIN_VOLUME (read
\* either as: becomes MIN_VOLUME, or as: grows by MIN_VOLUME); the changed
\* volume is at least MIN_VOLUME afterwards.
C16_Original ==
  AddedWithRoom =>
    LET increase == Min(lastOp.arg, getFreeVolume(pre))
        before == volumeOf(lastOp.name, pre)
        after == volumeOf(lastOp.name, Cur)
    IN /\ IF Lt(increase, MIN_VOLUME)
          THEN after \in { MIN_VOLUME, Add(before, MIN_VOLUME) }
          ELSE after = Add(before, increase)
       /\ Le(MIN_VOLUME, after)

\* C16 (amended): for deltaVolume > 0 and freeVolume > 0, addSolute (resp.
\* addWater) increases soluteVolume (resp. waterVolume) by exactly
\* min(deltaVolume, freeVolume), except that when the resulting volume would
\* be smaller than MIN_VOLUME (0.01) the volume becomes MIN_VOLUME; the other
\* volume is not changed, and the changed volume is at least MIN_VOLUME afterwards.
C16_AddClampsAndSnaps ==
  AddedWithRoom =>
    LET increase == Min(lastOp.arg, getFreeVolume(pre))
        before == volumeOf(lastOp.name, pre)
        after == volumeOf(lastOp.name, Cur)
    IN /\ IF Lt(Add(before, increase), MIN_VOLUME)
          THEN after = MIN_VOLUME
          ELSE after = Add(before, increase)
       /\ otherVolumeOf(lastOp.name, Cur) = otherVolumeOf(lastOp.name, pre)
       /\ Le(MIN_VOLUME, after)

\* solute was added to a beaker without solute, less of it than MIN_VOLUME
C16_Witness ==
  /\ AddedWithRoom
  /\ lastOp.name = "addSolute"
  /\ pre.soluteVolume = Zero
  /\ Lt(lastOp.arg, MIN_VOLUME)
  /\ soluteVolume = MIN_VOLUME

\* C17: after any sequence of addSolute, addWater, drainSolution, reset and
\* solute replacement, with arguments of any sign and size, soluteVolume >= 0
\* and waterVolume >= 0, and both are numbers (no division by zero happened).
C17_VolumesNeverNegative ==
  /\ Le(Zero, soluteVolume)
  /\ Le(Zero, waterVolume)
  /\ soluteVolume[2] > 0
  /\ waterVolume[2] > 0

\* more was drained from a mixture than it held
C17_Witness ==
  /\ lastOp.name = "drainSolution"
  /\ Lt(pre.totalVolume, lastOp.arg)
  /\ Lt(Zero, pre.soluteVolume)
  /\ Lt(Zero, pre.waterVolume)
  /\ soluteVolume = Zero
  /\ waterVolume = Zero

\* C18: when the displayed pH is null (no solution), both particle counts are 0.
C18_NullPHNoMolecules ==
  /\ numberOfMolecules(NullNumber) = [ H3O |-> 0, OH |-> 0 ]
  /\ (ratioNode.pH = NullNumber \/ (ratioNode.visible /\ pHNumber = NullNumber)) =>
       /\ ratioNode.numberOfH3OMolecules = 0
       /\ ratioNode.numberOfOHMolecules = 0

\* the pH of a visible view that showed molecules became null
C18_Witness ==
  /\ lastOp.name = "setPH"
  /\ lastOp.arg = NullNumber
  /\ ratioNode.visible
  /\ ratioPre.ratioNode.numberOfH3OMolecules > 0
  /\ ratioPre.ratioNode.numberOfOHMolecules > 0
  /\ ratioNode.pH = NullNumber

\* C19: at displayed pH 7 the two particle counts are equal and nonzero: each
\* is half of TOTAL_MOLECULES_AT_PH_7.
C19_EqualAtNeutral ==
  /\ numberOfMolecules(Num(7)) = [ H3O |-> TOTAL_MOLECULES_AT_PH_7 \div 2, OH |-> TOTAL_MOLECULES_AT_PH_7 \div 2 ]
  /\ (ratioNode.pH = Num(7) \/ (ratioNode.visible /\ pHNumber # NullNumber
                                   /\ toFixedNumber(pHNumber, PH_METER_DECIMAL_PLACES) = Num(7))) =>
       /\ ratioNode.numberOfH3OMolecules = ratioNode.numberOfOHMolecules
       /\ ratioNode.numberOfH3OMolecules = TOTAL_MOLECULES_AT_PH_7 \div 2
       /\ ratioNode.numberOfH3OMolecules > 0

\* the pH of a visible view went from a basic value to one displayed as 7.00
C19_Witness ==
  /\ lastOp.name = "setPH"
  /\ lastOp.arg = Rat(7004, 1000)
  /\ ratioNode.visible
  /\ ratioPre.ratioNode.numberOfH3OMolecules < ratioPre.ratioNode.numberOfOHMolecules
  /\ ratioNode.pH = Num(7)
  /\ ratioNode.numberOfOHMolecules = 50

\* C20: for every non-null displayed pH in [0, 14], at the precision of the
\* display, both particle counts are integers, each at least
\* MIN_MINORITY_MOLECULES (so never zero) and at most MAX_MAJORITY_MOLECULES,
\* so every index written to the coordinate arrays is within their length.
C20_CountsWithinBounds ==
  /\ ratioNode.pH # NullNumber =>
       /\ ratioNode.pH \in DisplayedPHs
       /\ ratioNode.numberOfH3OMolecules = numberOfMolecules(ratioNode.pH).H3O
       /\ ratioNode.numberOfOHMolecules = numberOfMolecules(ratioNode.pH).OH
       /\ ratioNode.numberOfH3OMolecules \in MIN_MINORITY_MOLECULES .. MAX_MAJORITY_MOLECULES
       /\ ratioNode.numberOfOHMolecules \in MIN_MINORITY_MOLECULES .. MAX_MAJORITY_MOLECULES
  /\ ratioNode.written.H3O \in 0 .. CoordinateArrayLength
  /\ ratioNode.written.OH \in 0 .. CoordinateArrayLength

\* the view of a solution of pH 14 was shown: as many OH- as the arrays hold
\* were drawn, and the fewest H3O+
C20_Witness ==
  /\ lastOp.name = "setVisible"
  /\ lastOp.arg = TRUE
  /\ ~ratioPre.ratioNode.visible
  /\ ratioNode.pH = PH_RANGE.max
  /\ ratioNode.written = [ H3O |-> MIN_MINORITY_MOLECULES, OH |-> CoordinateArrayLength ]

\* the smallest step of the displayed pH
DisplayStep == Rat(1, 10 ^ PH_METER_DECIMAL_PLACES)

\* the molecules a majority gains per unit of pH to go from its count at the
\* end of the logarithmic range to MAX_MAJORITY_MOLECULES at the end of the scale
LinearSlope ==
  Div(Num(MAX_MAJORITY_MOLECULES - computeNumberOfOH(LOG_PH_RANGE.max)),
      Sub(PH_RANGE.max, LOG_PH_RANGE.max))

\* C21: over the displayed pH values in [0, 14] the H3O+ count does not
\* increase with the pH and is at most its value at pH 0, which is
\* MAX_MAJORITY_MOLECULES; the OH- count does not decrease with the pH and is
\* at most its value at pH 14, which is MAX_MAJORITY_MOLECULES; and at pH 6
\* and pH 8 the majority count is the value of the logarithmic rule, from
\* which the linear rule continues.
C21_CountsMonotonic ==
  /\ numberOfMolecules(PH_RANGE.min).H3O = MAX_MAJORITY_MOLECULES
  /\ numberOfMolecules(PH_RANGE.max).OH = MAX_MAJORITY_MOLECULES
  /\ numberOfMolecules(LOG_PH_RANGE.min).H3O = computeNumberOfH3O(LOG_PH_RANGE.min)
  /\ numberOfMolecules(LOG_PH_RANGE.max).OH = computeNumberOfOH(LOG_PH_RANGE.max)
  /\ numberOfMolecules(Sub(LOG_PH_RANGE.min, DisplayStep)).H3O =
       roundSymmetric(Add(Num(computeNumberOfH3O(LOG_PH_RANGE.min)), Mul(DisplayStep, LinearSlope)))
  /\ numberOfMolecules(Add(LOG_PH_RANGE.max, DisplayStep)).OH =
       roundSymmetric(Add(Num(computeNumberOfOH(LOG_PH_RANGE.max)), Mul(DisplayStep, LinearSlope)))
  /\ ratioNode.pH # NullNumber =>
       LET next == Add(ratioNode.pH, DisplayStep) IN
       /\ ratioNode.numberOfH3OMolecules <= MAX_MAJORITY_MOLECULES
       /\ ratioNode.numberOfOHMolecules <= MAX_MAJORITY_MOLECULES
       /\ Le(next, PH_RANGE.max) =>
            /\ numberOfMolecules(next).H3O <= ratioNode.numberOfH3OMolecules
            /\ numberOfMolecules(next).OH >= ratioNode.numberOfOHMolecules

\* the view of a solution of pH 0 was shown: the most H3O+ and the fewest OH-
C21_Witness ==
  /\ lastOp.name = "setVisible"
  /\ lastOp.arg = TRUE
  /\ ~ratioPre.ratioNode.visible
  /\ ratioNode.pH = PH_RANGE.min
  /\ ratioNode.numberOfH3OMolecules = MAX_MAJORITY_MOLECULES
  /\ ratioNode.numberOfOHMolecules = MIN_MINORITY_MOLECULES

\* the pair of counts that the canvas holds
countsOf(r) == << r.numberOfH3OMolecules, r.numberOfOHMolecules >>

\* the coordinate arrays that the canvas holds
positionsOf(r) == << r.xyH3O, r.xyOH >>

\* C22: stored particle positions change only when the pair of counts changes:
\* a call of drawMolecules with the counts of the previous call, a repaint, a
\* volume change, and a pH change that leaves the pH rounded to display
\* precision unchanged each leave every stored position identical.
C22_PositionsChangeOnlyWithCounts ==
  LET before == ratioPre.ratioNode
      same == positionsOf(ratioNode) = positionsOf(before)
  IN /\ countsOf(ratioNode) = countsOf(before) => same
     /\ lastOp.name = "drawMolecules" /\ lastOp.arg = countsOf(before) => same
     /\ lastOp.name \in { "paint", "setVolume" } => same
     /\ ( /\ lastOp.name = "setPH"
          /\ ratioPre.pHNumber # NullNumber
          /\ pHNumber # NullNumber
          /\ toFixedNumber(pHNumber, PH_METER_DECIMAL_PLACES)
               = toFixedNumber(ratioPre.pHNumber, PH_METER_DECIMAL_PLACES) ) => same

\* drawMolecules was called again with the counts (50, 50) that the canvas
\* held, whose coordinates an earlier drawing had written
C22_Witness ==
  /\ lastOp.name = "drawMolecules"
  /\ lastOp.arg = << 50, 50 >>
  /\ countsOf(ratioPre.ratioNode) = << 50, 50 >>
  /\ ratioNode.xyH3O.stream \in RandomStreams
  /\ ratioNode.xyH3O.length = 50
  /\ positionsOf(ratioNode) = positionsOf(ratioPre.ratioNode)

\* the entries of a pair of arrays at the indices below n are the same before
\* and after, for n no more than the length that before holds
unchangedBelow(before, after, n) ==
  n = 0 \/ after = before \/ after.stream = before.stream

\* C23: when the counts change, each species keeps the positions it already
\* had at the indices below its previous count (only the entries a larger
\* count adds are randomized, and nothing is when a count shrinks).
C23_GrowthKeepsPositions ==
  LET before == ratioPre.ratioNode
  IN countsOf(ratioNode) # countsOf(before) =>
       /\ unchangedBelow(before.xyH3O, ratioNode.xyH3O, before.numberOfH3OMolecules)
       /\ unchangedBelow(before.xyOH, ratioNode.xyOH, before.numberOfOHMolecules)

\* C24: in every paint, the species painted first is one whose count is
\* greater than or equal to the other's and it is painted with the majority
\* (lower) opacity; the species painted second has the smaller or equal count
\* and is painted with the minority (higher) opacity.
C24_MajorityPaintedFirst ==
  /\ ratioNode.painted # << >> =>
       LET first == ratioNode.painted[1]
           second == ratioNode.painted[2]
       IN /\ Len(ratioNode.painted) = 2
          /\ { first.species, second.species } = { "H3O", "OH" }
          /\ first.numberOfMolecules >= second.numberOfMolecules
          /\ first.alpha = MAJORITY_ALPHA
          /\ second.alpha = MINORITY_ALPHA
          /\ Lt(first.alpha, second.alpha)
  /\ lastOp.name = "paint" =>
       /\ ratioNode.painted # << >>
       /\ { << c.species, c.numberOfMolecules >> : c \in { ratioNode.painted[i] : i \in 1 .. 2 } }
            = { << "H3O", ratioNode.numberOfH3OMolecules >>, << "OH", ratioNode.numberOfOHMolecules >> }

\* a paint of an acid: H3O, the larger count, came first
C24_Witness ==
  /\ lastOp.name = "paint"
  /\ ratioNode.painted[1].species = "H3O"
  /\ ratioNode.painted[1].numberOfMolecules > ratioNode.painted[2].numberOfMolecules
  /\ ratioNode.painted[2].numberOfMolecules = MIN_MINORITY_MOLECULES

\* the pH as the meter displays it
displayed(value) ==
  IF value # NullNumber THEN toFixedNumber(value, PH_METER_DECIMAL_PLACES) ELSE NullNumber

SoluteReplacedWhileRestoring ==
  /\ lastOp.name = "setSolute"
  /\ lastOp.arg # pre.solute
  /\ pre.isSettingPhetioState

\* C25: while persisted state is being restored, a change of the solute
\* neither resets soluteVolume and waterVolume nor disables the faucets nor
\* starts autofill: the volumes, the faucets' enabled flags and the
\* Flowing/Autofilling state are unchanged by the solute change.
C25_RestoringSoluteChange ==
  SoluteReplacedWhileRestoring =>
    /\ solute = lastOp.arg
    /\ soluteVolume = pre.soluteVolume
    /\ waterVolume = pre.waterVolume
    /\ totalVolume = pre.totalVolume
    /\ waterFaucetEnabled = pre.waterFaucetEnabled
    /\ drainFaucetEnabled = pre.drainFaucetEnabled
    /\ isAutofilling = pre.isAutofilling
    /\ isDispensing = pre.isDispensing
    /\ dropperFlowRate = pre.dropperFlowRate

\* the solute was replaced during a restore, in a Flowing model with autofill
\* enabled, both faucets enabled and volumes that are not the initial ones
C25_Witness ==
  /\ SoluteReplacedWhileRestoring
  /\ autofillEnabled
  /\ Lt(Zero, autofillVolume)
  /\ ~isAutofilling
  /\ waterFaucetEnabled
  /\ drainFaucetEnabled
  /\ << soluteVolume, waterVolume >> # << initialSoluteVolume, initialWaterVolume >>

\* C26: after every public operation of the solution has returned, the
\* published totalVolume equals soluteVolume + waterVolume and the suppression
\* flag of the atomic drain is false, so no derived value is stale, also after
\* a drain that changes only one of the two volumes.
C26_DerivedValuesCurrent ==
  /\ ~ignoreVolumeUpdate
  /\ totalVolume = Add(soluteVolume, waterVolume)
  /\ pH = computePH(solute.pH, soluteVolume, waterVolume)
  /\ color = colorDerivation(Cur)

\* a drain of pure water: only waterVolume changed, and some water is left
C26_Witness ==
  /\ lastOp.name = "drainSolution"
  /\ pre.soluteVolume = Zero
  /\ soluteVolume = Zero
  /\ Lt(Zero, waterVolume)
  /\ Lt(waterVolume, pre.waterVolume)
  /\ totalVolume = waterVolume

\* the last operation changed both volumes
BothVolumesChanged ==
  /\ soluteVolume # pre.soluteVolume
  /\ waterVolume # pre.waterVolume

\* C27: every operation that changes both volumes, reset() and the reset of
\* the volumes by a replaced solute included, publishes one consistent derived
\* update: a subscriber of totalVolume or pH is never notified of a value
\* computed from one reset volume and one stale volume, nor of a pH computed
\* from the new solute and the volumes before the reset.
C27_SingleDerivedUpdate ==
  (lastOp.name \in { "reset", "setSolute", "drainSolution" } /\ BothVolumesChanged) =>
    /\ \A i \in 1 .. Len(totalLog) : totalLog[i] = totalVolume
    /\ \A i \in 1 .. Len(pHLog) : pHLog[i] = pH

\* C28: from the solute change that puts the model in Autofilling until the
\* model is Flowing again, the water faucet and the drain faucet stay
\* disabled across every intermediate step(dt), and those steps leave
\* waterVolume unchanged.
C28_FaucetsOffWhileAutofilling ==
  /\ (SoluteReplaced /\ isAutofilling) => ~waterFaucetEnabled /\ ~drainFaucetEnabled
  /\ ( /\ AutofillTick
       /\ ~pre.waterFaucetEnabled
       /\ ~pre.drainFaucetEnabled
       /\ isAutofilling ) => ~waterFaucetEnabled /\ ~drainFaucetEnabled
  /\ AutofillTick => waterVolume = pre.waterVolume

\* a tick of a Flowing model that stood at the autofill target with both
\* faucets at zero flow and the dropper as the autofill left it
TickAtTarget ==
  /\ lastOp.name = "step"
  /\ ~pre.isAutofilling
  /\ pre.autofillEnabled /\ Lt(Zero, pre.autofillVolume)
  /\ pre.totalVolume = pre.autofillVolume
  /\ pre.waterFaucetFlowRate = Zero
  /\ pre.drainFaucetFlowRate = Zero
  /\ ~pre.isDispensing

\* C29: after autofill has completed and the model is Flowing again, further
\* step(dt) calls with both faucets at zero flow and no user input leave
\* totalVolume at the autofill target: the tick that completes the autofill
\* stops the dropper, whose fast flow rate does not go on dispensing solute.
C29_NoFlowAfterAutofill ==
  /\ (AutofillTick /\ ~isAutofilling) =>
       /\ totalVolume = autofillVolume
       /\ ~isDispensing
       /\ dropperFlowRate = Zero
  /\ TickAtTarget =>
       /\ totalVolume = autofillVolume
       /\ soluteVolume = pre.soluteVolume
       /\ ~isAutofilling
       /\ ~isDispensing
       /\ dropperFlowRate = Zero

\* the autofill filled an empty beaker with solute up to the target, and a
\* further tick has run
C29_Witness ==
  /\ TickAtTarget
  /\ pre.soluteVolume = AutofillVolume
  /\ pre.waterVolume = Zero
  /\ totalVolume = AutofillVolume
====
